---------------------------- MODULE Spec2Model ----------------------------
(***************************************************************************)
(* A state-machine model of the QRCodeGenerator React component            *)
(* (src/unnamed/part_000).  The component's useState fields are the        *)
(* variables; every event handler, effect and promise continuation is one  *)
(* action.  An async function is cut at its awaits: the code between two   *)
(* awaits runs to completion as one step, and other events may interleave  *)
(* while a promise is pending.  A handler closes over the state of the     *)
(* render it was created in, so a generation cycle carries the values it   *)
(* captured when it was started.                                           *)
(***************************************************************************)
EXTENDS Integers, Sequences, FiniteSets, TLC

VARIABLES
    loaded,           \* the mount effect (load recent URLs) has run
    mounted,          \* the component is rendered: no render has thrown
    storage,          \* localStorage record under 'qr-recent-urls'
    storageWritable,  \* localStorage.setItem succeeds (FALSE: it throws, quota exceeded)
    url,              \* useState url
    qrCodeDataUrl,    \* useState qrCodeDataUrl
    isGenerating,     \* useState isGenerating
    qrSize,           \* useState qrSize
    recentUrls,       \* useState recentUrls
    logoEnabled,      \* useState logoEnabled
    logoFile,         \* useState logoFile
    logoPreview,      \* useState logoPreview
    readerPending,    \* a FileReader.readAsDataURL is in flight
    autoDetectLogo,   \* useState autoDetectLogo
    detectedFavicon,  \* useState detectedFavicon
    isDetectingLogo,  \* useState isDetectingLogo
    cycles,           \* generateQRCode calls in flight, oldest first
    detections,       \* detectFavicon calls started by the URL-change effect
    toasts,           \* the toasts raised by the last step
    now,              \* the last value Date.now() returned
    last,             \* history variable: the last step and how its await settled
    started,          \* history variable: the generateQRCode calls that passed validation
    shownBy,          \* history variable: the call whose setQrCodeDataUrl ran last (0: none)
    copied,           \* useState copied
    copies,           \* copyToClipboard calls in flight: the image each closed over
    copyTimers,       \* pending setTimeout(() => setCopied(false), 2000)
    clipboard,        \* the image on the system clipboard
    downloaded        \* the last file the browser saved: its name and content

vars == <<loaded, mounted, storage, storageWritable, url, qrCodeDataUrl, isGenerating, qrSize, recentUrls,
          logoEnabled, logoFile, logoPreview, readerPending, autoDetectLogo,
          detectedFavicon, isDetectingLogo, cycles, detections, toasts, now, last, started, shownBy,
          copied, copies, copyTimers, clipboard, downloaded>>

\* the state of the Download and Copy buttons
share == <<copied, copies, copyTimers, clipboard, downloaded>>

----------------------------------------------------------------------------
(* Bounds of the model *)

\* generateQRCode calls in flight at once
MaxCycles == 2
\* generateQRCode calls that pass validation in one session
MaxStarts == 3
\* the same, while working with the logo
MaxLogoStarts == 1
\* effect-started detectFavicon calls in flight at once
MaxDetect == 1
\* the clock's last tick
MaxTime == 1
\* the history entries the user selects among, from the top
MaxSelect == 2
\* copyToClipboard calls in flight at once
MaxCopies == 1
\* pending timers that reset the copied mark
MaxCopyTimers == 1

(* Program constants *)

\* .slice(0, 5)
MaxRecent == 5
\* faviconSources.length
NumSources == 6

\* strings the user types that are not URLs
InvalidInputs == {"", " ", "not-a-url"}
\* URLs the user types
TypedUrls == {"https://a.com", "http://b.org"}
\* what the user types while working with the Download and Copy buttons
ShareInputs == {"https://a.com"}
\* URLs a previous session left in the persisted record, newest first
OldUrls == <<"https://h1.com", "https://a.com", "https://h2.com",
             "https://h3.com", "https://h4.com">>
\* strings the user types while working with the logo
LogoInputs == {"", "https://a.com"}
\* the qrSize options the user picks from
Sizes == {"256", "512"}
\* files the user picks in the file input: name and MIME type
Files == {[name |-> "logo.png", type |-> "image/png"],
          [name |-> "notes.txt", type |-> "text/plain"]}
NoFile == [name |-> "", type |-> ""]

----------------------------------------------------------------------------
(* Pure helpers *)

\* new URL(string): the parsed URL, or a failure
ParseURL(s) ==
    CASE s = "https://a.com" -> [ok |-> TRUE, protocol |-> "https:", hostname |-> "a.com"]
      [] s = "http://b.org" -> [ok |-> TRUE, protocol |-> "http:", hostname |-> "b.org"]
      [] s = "https://h1.com" -> [ok |-> TRUE, protocol |-> "https:", hostname |-> "h1.com"]
      [] s = "https://h2.com" -> [ok |-> TRUE, protocol |-> "https:", hostname |-> "h2.com"]
      [] s = "https://h3.com" -> [ok |-> TRUE, protocol |-> "https:", hostname |-> "h3.com"]
      [] s = "https://h4.com" -> [ok |-> TRUE, protocol |-> "https:", hostname |-> "h4.com"]
      [] OTHER -> [ok |-> FALSE, protocol |-> "", hostname |-> ""]

isValidUrl(s) == ParseURL(s).ok

\* String.prototype.trim
Trim(s) == IF s = " " THEN "" ELSE s

\* parseInt(qrSize)
ParseInt(s) ==
    CASE s = "128" -> 128 [] s = "256" -> 256 [] s = "512" -> 512
      [] s = "1024" -> 1024 [] OTHER -> 0

\* file.type.startsWith('image/')
IsImageType(t) == t \in {"image/png", "image/jpeg", "image/svg+xml"}

\* FileReader.readAsDataURL(file)
ReadAsDataURL(f) == "data:" \o f.type \o ";base64," \o f.name

\* the candidate list detectFavicon builds
FaviconSources(urlString) ==
    LET u == ParseURL(urlString)
        d == u.hostname
    IN << "https://www.google.com/s2/favicons?domain=" \o d \o "&sz=64",
          "https://icons.duckduckgo.com/ip3/" \o d \o ".ico",
          "https://www.google.com/s2/favicons?domain=" \o d \o "&sz=32",
          u.protocol \o "//" \o d \o "/favicon.ico",
          u.protocol \o "//" \o d \o "/favicon.png",
          u.protocol \o "//" \o d \o "/apple-touch-icon.png" >>

\* the fallback detectFavicon returns when no candidate loaded
FallbackFavicon(urlString) ==
    "https://www.google.com/s2/favicons?domain=" \o ParseURL(urlString).hostname \o "&sz=64"

(* Images.  A bitmap is what is drawn: the QR symbol of a text at a size,   *)
(* and the logo drawn over it, if any.  A PNG data URL carries a bitmap     *)
(* losslessly.                                                              *)
Bitmap(text, size, logo) == [url |-> text, size |-> size, logo |-> logo]
NoImage == [mime |-> "", px |-> Bitmap("", 0, "")]
\* canvas.toDataURL('image/png')
CanvasToDataURL(canvas) == [mime |-> "image/png", px |-> canvas]
\* QRCode.toDataURL(targetUrl, {width: parseInt(qrSize), ...}), when it resolves
QRCodeToDataURL(targetUrl, size) == CanvasToDataURL(Bitmap(targetUrl, ParseInt(size), ""))
\* what an Image element holds once a data URL has loaded into it
DecodeImage(dataUrl) == dataUrl.px
\* the disc, the border and the clipped ctx.drawImage(logoImage, ...)
DrawLogo(canvas, logoUrl) == [canvas EXCEPT !.logo = logoUrl]
\* no file saved yet
NoDownload == [name |-> "", href |-> NoImage]

\* JSON.stringify(updated) / JSON.parse(saved)
NoRecord == [kind |-> "absent", val |-> <<>>]
CorruptRecord == [kind |-> "corrupt", val |-> <<>>]
\* the text 'null': JSON that parses, to a value that is no list
NullRecord == [kind |-> "null", val |-> <<>>]
JsonStringify(list) == [kind |-> "json", val |-> list]
JsonParses(rec) == rec.kind \in {"json", "null"}
\* the parsed value has a length: recentUrls.length can be evaluated
HasLength(rec) == rec.kind = "json"
JsonParse(rec) == rec.val

\* recentUrls.filter(item => item.url !== newUrl)
RECURSIVE FilterOut(_, _)
FilterOut(list, newUrl) ==
    IF list = <<>> THEN <<>>
    ELSE IF Head(list).url = newUrl THEN FilterOut(Tail(list), newUrl)
         ELSE <<Head(list)>> \o FilterOut(Tail(list), newUrl)

\* .slice(0, n)
Slice(list, n) == SubSeq(list, 1, IF Len(list) < n THEN Len(list) ELSE n)

\* addToRecentUrls without its .slice(0, 5)
UpdatedRecentNoSlice(list, newUrl, t) ==
    <<[url |-> newUrl, timestamp |-> t]>> \o FilterOut(list, newUrl)

\* the list addToRecentUrls computes from the recentUrls it closed over
UpdatedRecent(list, newUrl, t) ==
    Slice(<<[url |-> newUrl, timestamp |-> t]>> \o FilterOut(list, newUrl), MaxRecent)

RemoveAt(seq, k) == SubSeq(seq, 1, k - 1) \o SubSeq(seq, k + 1, Len(seq))

Toast(title, description) == [title |-> title, description |-> description]

Step(op, ok) == [op |-> op, ok |-> ok]

\* createQRWithLogo returning the empty canvas when it cannot draw the QR code
CreateQRWithLogoBlank(qrDataUrl, logoUrl, canvasOk, qrLoaded, logoLoaded) ==
    IF ~canvasOk \/ ~qrLoaded
    THEN CanvasToDataURL(Bitmap("", 0, ""))
    ELSE LET drawn == DecodeImage(qrDataUrl)
         IN CanvasToDataURL(IF logoLoaded THEN DrawLogo(drawn, logoUrl) ELSE drawn)

\* createQRWithLogo drawing the white disc before the logo has loaded
CreateQRWithLogoDiscFirst(qrDataUrl, logoUrl, canvasOk, qrLoaded, logoLoaded) ==
    IF ~canvasOk \/ ~qrLoaded
    THEN qrDataUrl
    ELSE CanvasToDataURL(DrawLogo(DecodeImage(qrDataUrl),
                                  IF logoLoaded THEN logoUrl ELSE "white disc"))

\* createQRWithLogo's result, given how its three fallible steps went: canvas
\* creation, the QR image load (error or 10 s timeout) and the logo image load
\* (error or 8 s timeout)
CreateQRWithLogo(qrDataUrl, logoUrl, canvasOk, qrLoaded, logoLoaded) ==
    IF ~canvasOk \/ ~qrLoaded
    THEN qrDataUrl
    ELSE LET drawn == DecodeImage(qrDataUrl)
         IN CanvasToDataURL(IF logoLoaded THEN DrawLogo(drawn, logoUrl) ELSE drawn)

----------------------------------------------------------------------------
(* Initial state: the component after its first render, before the mount    *)
(* effect.  The persisted record is what an earlier session or another      *)
(* writer left: nothing, a full list addToRecentUrls wrote, text that does  *)
(* not parse, or the JSON text 'null'.  The storage is writable or not for  *)
(* the whole session.                                                       *)

Preload(k) == [i \in 1..k |-> [url |-> OldUrls[i], timestamp |-> 0]]

Init ==
    /\ loaded = FALSE
    /\ mounted = TRUE
    /\ storage \in {NoRecord, CorruptRecord, NullRecord}
                   \cup {JsonStringify(Preload(MaxRecent))}
    /\ storageWritable \in BOOLEAN
    /\ url = ""
    /\ qrCodeDataUrl = NoImage
    /\ shownBy = 0
    /\ isGenerating = FALSE
    /\ qrSize = "256"
    /\ recentUrls = <<>>
    /\ logoEnabled = FALSE
    /\ logoFile = NoFile
    /\ logoPreview = ""
    /\ readerPending = FALSE
    /\ autoDetectLogo = TRUE
    /\ detectedFavicon = ""
    /\ isDetectingLogo = FALSE
    /\ cycles = <<>>
    /\ detections = <<>>
    /\ toasts = <<>>
    /\ now = 0
    /\ last = Step("Init", TRUE)
    /\ started = 0
    /\ copied = FALSE
    /\ copies = <<>>
    /\ copyTimers = 0
    /\ clipboard = NoImage
    /\ downloaded = NoDownload

----------------------------------------------------------------------------
(* The effect on [url, autoDetectLogo, logoEnabled]: after a render in which *)
(* one of them changed, detectFavicon(url) is called when auto-detect and the *)
(* logo are on and the URL is valid.  detectFavicon sets the detecting flag   *)
(* and starts its first probe.                                                *)

EffectFires(u, auto, logo) == auto /\ logo /\ u # "" /\ isValidUrl(u)

\* the effect alone: used by the handlers that start no generation
AutoDetectEffect(u, auto, logo) ==
    IF EffectFires(u, auto, logo)
    THEN /\ Len(detections) < MaxDetect
         /\ detections' = Append(detections, [url |-> u, i |-> 0])
         /\ isDetectingLogo' = TRUE
    ELSE UNCHANGED <<detections, isDetectingLogo>>

----------------------------------------------------------------------------
(* Startup and the plain handlers *)

\* useEffect(() => {...}, []): load recent URLs from localStorage
LoadRecentUrls ==
    /\ ~loaded
    /\ last' = Step("LoadRecentUrls", storage.kind = "json")
    /\ loaded' = TRUE
    /\ LET parsed == storage.kind # "absent" /\ JsonParses(storage)
       IN /\ recentUrls' = IF parsed /\ HasLength(storage)
                           THEN JsonParse(storage)
                           ELSE recentUrls
          /\ mounted' = (parsed => HasLength(storage))
    /\ toasts' = <<>>
    /\ UNCHANGED <<started, storageWritable, storage, url, qrCodeDataUrl, shownBy, isGenerating, qrSize, logoEnabled,
                   logoFile, logoPreview, readerPending, autoDetectLogo,
                   detectedFavicon, isDetectingLogo, cycles, detections, now>>
    /\ UNCHANGED share

\* <Input onChange={(e) => setUrl(e.target.value)} disabled={isGenerating}>
SetUrl(s) ==
    /\ loaded /\ mounted /\ ~isGenerating /\ s # url
    /\ last' = Step("Handler", TRUE)
    /\ url' = s
    /\ AutoDetectEffect(s, autoDetectLogo, logoEnabled)
    /\ toasts' = <<>>
    /\ UNCHANGED <<mounted, started, storageWritable, loaded, storage, qrCodeDataUrl, shownBy, isGenerating, qrSize, recentUrls,
                   logoEnabled, logoFile, logoPreview, readerPending, autoDetectLogo,
                   detectedFavicon, cycles, now>>
    /\ UNCHANGED share

\* <Switch checked={logoEnabled} onCheckedChange={setLogoEnabled}>
ToggleLogo ==
    /\ loaded /\ mounted
    /\ last' = Step("Handler", TRUE)
    /\ logoEnabled' = ~logoEnabled
    /\ AutoDetectEffect(url, autoDetectLogo, ~logoEnabled)
    /\ toasts' = <<>>
    /\ UNCHANGED <<mounted, started, storageWritable, loaded, storage, url, qrCodeDataUrl, shownBy, isGenerating, qrSize,
                   recentUrls, logoFile, logoPreview, readerPending, autoDetectLogo,
                   detectedFavicon, cycles, now>>
    /\ UNCHANGED share

\* <Switch checked={autoDetectLogo} onCheckedChange={setAutoDetectLogo}>,
\* rendered only while logoEnabled
ToggleAutoDetect ==
    /\ loaded /\ mounted /\ logoEnabled
    /\ last' = Step("Handler", TRUE)
    /\ autoDetectLogo' = ~autoDetectLogo
    /\ AutoDetectEffect(url, ~autoDetectLogo, logoEnabled)
    /\ toasts' = <<>>
    /\ UNCHANGED <<mounted, started, storageWritable, loaded, storage, url, qrCodeDataUrl, shownBy, isGenerating, qrSize,
                   recentUrls, logoEnabled, logoFile, logoPreview, readerPending,
                   detectedFavicon, cycles, now>>
    /\ UNCHANGED share

\* <Select value={qrSize} onValueChange={setQrSize}>
SetSize(z) ==
    /\ loaded /\ mounted /\ z # qrSize
    /\ last' = Step("Handler", TRUE)
    /\ qrSize' = z
    /\ toasts' = <<>>
    /\ UNCHANGED <<mounted, started, storageWritable, loaded, storage, url, qrCodeDataUrl, shownBy, isGenerating, recentUrls,
                   logoEnabled, logoFile, logoPreview, readerPending, autoDetectLogo,
                   detectedFavicon, isDetectingLogo, cycles, detections, now>>
    /\ UNCHANGED share

\* handleLogoUpload: the file input is rendered while logoEnabled and
\* auto-detect is off
HandleLogoUpload(f) ==
    /\ loaded /\ mounted /\ logoEnabled /\ ~autoDetectLogo
    /\ last' = Step("HandleLogoUpload", IsImageType(f.type))
    /\ IF ~IsImageType(f.type)
       THEN /\ toasts' = <<Toast("Invalid File", "Please select an image file")>>
            /\ UNCHANGED <<logoFile, readerPending>>
       ELSE /\ logoFile' = f
            /\ readerPending' = TRUE
            /\ toasts' = <<>>
    /\ UNCHANGED <<mounted, started, storageWritable, loaded, storage, url, qrCodeDataUrl, shownBy, isGenerating, qrSize,
                   recentUrls, logoEnabled, logoPreview, autoDetectLogo,
                   detectedFavicon, isDetectingLogo, cycles, detections, now>>
    /\ UNCHANGED share

\* reader.onload = (e) => setLogoPreview(e.target.result)
ReaderOnLoad ==
    /\ readerPending
    /\ last' = Step("Handler", TRUE)
    /\ readerPending' = FALSE
    /\ logoPreview' = ReadAsDataURL(logoFile)
    /\ toasts' = <<>>
    /\ UNCHANGED <<mounted, started, storageWritable, loaded, storage, url, qrCodeDataUrl, shownBy, isGenerating, qrSize,
                   recentUrls, logoEnabled, logoFile, autoDetectLogo,
                   detectedFavicon, isDetectingLogo, cycles, detections, now>>
    /\ UNCHANGED share

\* <img src={detectedFavicon} onError={() => setDetectedFavicon('')}>, rendered
\* while logoEnabled, autoDetectLogo and detectedFavicon
FaviconPreviewError ==
    /\ loaded /\ mounted /\ logoEnabled /\ autoDetectLogo /\ detectedFavicon # ""
    /\ last' = Step("Handler", TRUE)
    /\ detectedFavicon' = ""
    /\ toasts' = <<>>
    /\ UNCHANGED <<mounted, started, storageWritable, loaded, storage, url, qrCodeDataUrl, shownBy, isGenerating, qrSize,
                   recentUrls, logoEnabled, logoFile, logoPreview, readerPending,
                   autoDetectLogo, isDetectingLogo, cycles, detections, now>>
    /\ UNCHANGED share

\* clearRecentUrls without localStorage.removeItem
ClearRecentUrlsKeepsRecord ==
    /\ loaded /\ mounted /\ Len(recentUrls) > 0
    /\ last' = Step("ClearRecentUrls", TRUE)
    /\ recentUrls' = <<>>
    /\ toasts' = <<Toast("History Cleared", "Recent URLs have been cleared")>>
    /\ UNCHANGED <<mounted, started, storageWritable, loaded, storage, url, qrCodeDataUrl, shownBy, isGenerating, qrSize,
                   logoEnabled, logoFile, logoPreview, readerPending, autoDetectLogo,
                   detectedFavicon, isDetectingLogo, cycles, detections, now>>
    /\ UNCHANGED share

\* clearRecentUrls: the button is rendered while recentUrls.length > 0
ClearRecentUrls ==
    /\ loaded /\ mounted /\ Len(recentUrls) > 0
    /\ last' = Step("ClearRecentUrls", TRUE)
    /\ recentUrls' = <<>>
    /\ storage' = NoRecord
    /\ toasts' = <<Toast("History Cleared", "Recent URLs have been cleared")>>
    /\ UNCHANGED <<mounted, started, storageWritable, loaded, url, qrCodeDataUrl, shownBy, isGenerating, qrSize, logoEnabled,
                   logoFile, logoPreview, readerPending, autoDetectLogo,
                   detectedFavicon, isDetectingLogo, cycles, detections, now>>
    /\ UNCHANGED share

----------------------------------------------------------------------------
(* detectFavicon: one probe at a time, an Image with a 3 s timeout *)

\* detectFavicon returning the first candidate whichever one loaded
DetectFaviconResultFirst(urlString, i, accessible) == FallbackFavicon(urlString)

\* detectFavicon returning null when no candidate loaded
DetectFaviconResultNull(urlString, i, accessible) ==
    IF accessible THEN FaviconSources(urlString)[i + 1] ELSE ""

\* what detectFavicon returns once probe i (from 0) has resolved, when it
\* returns: the candidate that loaded, or the fallback after the last failure
DetectFaviconResult(urlString, i, accessible) ==
    IF accessible THEN FaviconSources(urlString)[i + 1]
    ELSE FallbackFavicon(urlString)

\* probe i of an effect-started detectFavicon call resolves
EffectProbeDone(d, accessible) ==
    /\ d \in 1..Len(detections)
    /\ last' = Step("EffectProbeDone", accessible)
    /\ LET det == detections[d]
       IN IF ~accessible /\ det.i + 1 < NumSources
          THEN /\ detections' = [detections EXCEPT ![d].i = det.i + 1]
               /\ UNCHANGED <<detectedFavicon, isDetectingLogo>>
          ELSE /\ detections' = RemoveAt(detections, d)
               /\ detectedFavicon' = DetectFaviconResult(det.url, det.i, accessible)
               /\ isDetectingLogo' = FALSE
    /\ toasts' = <<>>
    /\ UNCHANGED <<mounted, started, storageWritable, loaded, storage, url, qrCodeDataUrl, shownBy, isGenerating, qrSize,
                   recentUrls, logoEnabled, logoFile, logoPreview, readerPending,
                   autoDetectLogo, cycles, now>>
    /\ UNCHANGED share

----------------------------------------------------------------------------
(* generateQRCode *)

\* a generateQRCode call that does not look at the uploaded logo
NewCycleIgnoresUpload(targetUrl, direct) ==
    [pc |-> "encode", target |-> targetUrl, direct |-> direct, size |-> qrSize,
     logoEnabled |-> logoEnabled, upload |-> "",
     auto |-> autoDetectLogo, snap |-> IF direct THEN recentUrls ELSE <<>>, i |-> 0, logoUrl |-> "",
     id |-> started + 1]

\* the state a generateQRCode call closes over in the render it belongs to
NewCycle(targetUrl, direct) ==
    [pc |-> "encode", target |-> targetUrl, direct |-> direct, size |-> qrSize,
     logoEnabled |-> logoEnabled,
     upload |-> IF logoFile # NoFile /\ logoPreview # "" THEN logoPreview ELSE "",
     auto |-> autoDetectLogo, snap |-> IF direct THEN recentUrls ELSE <<>>, i |-> 0, logoUrl |-> "",
     id |-> started + 1]

\* generateQRCode without the isValidUrl check
StartGenerateUnvalidated(inputUrl) ==
    LET targetUrl == IF inputUrl # "" THEN inputUrl ELSE url
    IN IF Trim(targetUrl) = ""
       THEN /\ toasts' = <<Toast("URL Required", "Please enter a URL to generate QR code")>>
            /\ UNCHANGED <<isGenerating, cycles, started>>
       ELSE /\ Len(cycles) < MaxCycles /\ started < MaxStarts
            /\ started' = started + 1
            /\ isGenerating' = TRUE
            /\ cycles' = Append(cycles, NewCycle(targetUrl, inputUrl = ""))
            /\ toasts' = <<>>

\* generateQRCode(inputUrl) up to its first await: the two validations, then
\* setIsGenerating(true) and the call of QRCode.toDataURL
StartGenerate(inputUrl) ==
    LET targetUrl == IF inputUrl # "" THEN inputUrl ELSE url
    IN IF Trim(targetUrl) = ""
       THEN /\ toasts' = <<Toast("URL Required", "Please enter a URL to generate QR code")>>
            /\ UNCHANGED <<isGenerating, cycles, started>>
       ELSE IF ~isValidUrl(targetUrl)
       THEN /\ toasts' = <<Toast("Invalid URL", "Please enter a valid URL (e.g., https://example.com)")>>
            /\ UNCHANGED <<isGenerating, cycles, started>>
       ELSE /\ Len(cycles) < MaxCycles /\ started < MaxStarts
            /\ started' = started + 1
            /\ isGenerating' = TRUE
            /\ cycles' = Append(cycles, NewCycle(targetUrl, inputUrl = ""))
            /\ toasts' = <<>>

\* <Button onClick={() => generateQRCode()} disabled={isGenerating || !url.trim()}>
ClickGenerate ==
    /\ loaded /\ mounted /\ ~isGenerating /\ Trim(url) # ""
    /\ last' = Step("ClickGenerate", isValidUrl(url))
    /\ StartGenerate("")
    /\ UNCHANGED <<mounted, storageWritable, loaded, storage, url, qrCodeDataUrl, shownBy, qrSize, recentUrls,
                   logoEnabled, logoFile, logoPreview, readerPending, autoDetectLogo,
                   detectedFavicon, isDetectingLogo, detections, now>>
    /\ UNCHANGED share

\* handleKeyPress: Enter in the input, which is disabled while isGenerating
PressEnter ==
    /\ loaded /\ mounted /\ ~isGenerating
    /\ last' = Step("PressEnter", isValidUrl(url))
    /\ StartGenerate("")
    /\ UNCHANGED <<mounted, storageWritable, loaded, storage, url, qrCodeDataUrl, shownBy, qrSize, recentUrls,
                   logoEnabled, logoFile, logoPreview, readerPending, autoDetectLogo,
                   detectedFavicon, isDetectingLogo, detections, now>>
    /\ UNCHANGED share

\* a history entry's onClick: setUrl(item.url); generateQRCode(item.url)
SelectHistory(k) ==
    /\ loaded /\ mounted /\ k \in 1..Len(recentUrls)
    /\ last' = Step("SelectHistory", TRUE)
    /\ LET item == recentUrls[k]
       IN /\ url' = item.url
          /\ StartGenerate(item.url)
          /\ IF item.url # url
             THEN AutoDetectEffect(item.url, autoDetectLogo, logoEnabled)
             ELSE UNCHANGED <<detections, isDetectingLogo>>
    /\ UNCHANGED <<mounted, storageWritable, loaded, storage, qrCodeDataUrl, shownBy, qrSize, recentUrls, logoEnabled,
                   logoFile, logoPreview, readerPending, autoDetectLogo,
                   detectedFavicon, now>>
    /\ UNCHANGED share

\* addToRecentUrls(newUrl), called from a cycle that closed over list: the
\* state update, then localStorage.setItem, which throws when the storage
\* cannot be written
AddToRecentUrls(list, newUrl, t) ==
    LET updated == UpdatedRecent(list, newUrl, t)
    IN /\ recentUrls' = updated
       /\ storage' = IF storageWritable THEN JsonStringify(updated) ELSE storage

GeneratedToast(cyc) ==
    Toast("QR Code Generated!",
          IF cyc.logoEnabled THEN "QR code with logo is ready!"
          ELSE "Your QR code is ready to download or share")

FailedToast == Toast("Generation Failed", "Failed to generate QR code. Please try again.")

\* the end of the try block without setQrCodeDataUrl
CompleteKeepsImage(c, finalQrDataUrl, raised) ==
    LET cyc == cycles[c]
    IN /\ qrCodeDataUrl' = qrCodeDataUrl
       /\ shownBy' = shownBy
       /\ cycles' = RemoveAt(cycles, c)
       /\ isGenerating' = FALSE
       /\ IF cyc.direct
          THEN \E t \in {now, now + 1} :
                  /\ t <= MaxTime
                  /\ now' = t
                  /\ AddToRecentUrls(cyc.snap, cyc.target, t)
                  /\ toasts' = raised \o <<IF storageWritable THEN GeneratedToast(cyc)
                                           ELSE FailedToast>>
          ELSE /\ toasts' = raised \o <<GeneratedToast(cyc)>>
               /\ UNCHANGED <<recentUrls, storage, now>>

\* the end of the try block with addToRecentUrls called whatever inputUrl is
CompleteAlwaysRecords(c, finalQrDataUrl, raised) ==
    LET cyc == cycles[c]
    IN /\ qrCodeDataUrl' = finalQrDataUrl
       /\ shownBy' = cyc.id
       /\ cycles' = RemoveAt(cycles, c)
       /\ isGenerating' = FALSE
       /\ \E t \in {now, now + 1} :
             /\ t <= MaxTime
             /\ now' = t
             /\ AddToRecentUrls(recentUrls, cyc.target, t)
             /\ toasts' = raised \o <<IF storageWritable THEN GeneratedToast(cyc)
                                      ELSE FailedToast>>

\* the end of generateQRCode's try block: setQrCodeDataUrl, addToRecentUrls for
\* a direct submission, the toast; then catch and finally
Complete(c, finalQrDataUrl, raised) ==
    LET cyc == cycles[c]
    IN /\ qrCodeDataUrl' = finalQrDataUrl
       /\ shownBy' = cyc.id
       /\ cycles' = RemoveAt(cycles, c)
       /\ isGenerating' = FALSE
       /\ IF cyc.direct
          THEN \E t \in {now, now + 1} :
                  /\ t <= MaxTime
                  /\ now' = t
                  /\ AddToRecentUrls(cyc.snap, cyc.target, t)
                  /\ toasts' = raised \o <<IF storageWritable THEN GeneratedToast(cyc)
                                           ELSE FailedToast>>
          ELSE /\ toasts' = raised \o <<GeneratedToast(cyc)>>
               /\ UNCHANGED <<recentUrls, storage, now>>

\* a createQRWithLogo that returned the plain QR code treated as a failure of
\* the generation
IntegratedOrAbort(c, finalQrDataUrl) ==
    LET cyc == cycles[c]
        qrDataUrl == QRCodeToDataURL(cyc.target, cyc.size)
    IN IF finalQrDataUrl = qrDataUrl
       THEN /\ toasts' = <<FailedToast>>
            /\ isGenerating' = FALSE
            /\ cycles' = RemoveAt(cycles, c)
            /\ UNCHANGED <<qrCodeDataUrl, shownBy, recentUrls, storage, now>>
       ELSE Complete(c, finalQrDataUrl,
                     <<Toast("Success!", "QR code with logo generated successfully")>>)

\* createQRWithLogo has returned: the comparison with the plain QR code and
\* its toast, then the end of the try block
Integrated(c, finalQrDataUrl) ==
    LET cyc == cycles[c]
        qrDataUrl == QRCodeToDataURL(cyc.target, cyc.size)
    IN Complete(c, finalQrDataUrl,
                <<IF finalQrDataUrl = qrDataUrl
                  THEN Toast("Logo Integration Issue",
                             "Logo could not be integrated, using QR code without logo")
                  ELSE Toast("Success!", "QR code with logo generated successfully")>>)

\* if (logoUrl) {...} else {...}: the call of createQRWithLogo up to its first
\* await (canvas and 2D context), or the 'No Logo Found' toast
LogoResolved(c, logoUrl) ==
    LET cyc == cycles[c]
        qrDataUrl == QRCodeToDataURL(cyc.target, cyc.size)
    IN IF logoUrl # ""
       THEN \E canvasOk \in BOOLEAN :
               IF canvasOk
               THEN /\ cycles' = [cycles EXCEPT ![c].pc = "qrload", ![c].logoUrl = logoUrl]
                    /\ toasts' = <<>>
                    /\ UNCHANGED <<qrCodeDataUrl, shownBy, isGenerating, recentUrls, storage, now>>
               ELSE Integrated(c, CreateQRWithLogo(qrDataUrl, logoUrl, FALSE, FALSE, FALSE))
       ELSE Complete(c, qrDataUrl,
                     <<Toast("No Logo Found",
                             "Could not detect or load logo, generating QR code without logo")>>)

\* QRCode.toDataURL settles: the catch and finally when it rejects, else the
\* choice of the logo source
EncodeDone(c, encoded) ==
    /\ c \in 1..Len(cycles) /\ cycles[c].pc = "encode"
    /\ last' = Step("EncodeDone", encoded)
    /\ LET cyc == cycles[c]
       IN IF ~encoded
          THEN /\ toasts' = <<FailedToast>>
               /\ isGenerating' = FALSE
               /\ cycles' = RemoveAt(cycles, c)
               /\ UNCHANGED <<qrCodeDataUrl, shownBy, recentUrls, storage, now,
                              detectedFavicon, isDetectingLogo>>
          ELSE IF ~cyc.logoEnabled
          THEN /\ Complete(c, QRCodeToDataURL(cyc.target, cyc.size), <<>>)
               /\ UNCHANGED <<detectedFavicon, isDetectingLogo>>
          ELSE IF cyc.upload # ""
          THEN /\ LogoResolved(c, cyc.upload)
               /\ UNCHANGED <<detectedFavicon, isDetectingLogo>>
          ELSE IF cyc.auto
          THEN /\ cycles' = [cycles EXCEPT ![c].pc = "probe", ![c].i = 0]
               /\ isDetectingLogo' = TRUE
               /\ toasts' = <<>>
               /\ UNCHANGED <<qrCodeDataUrl, shownBy, isGenerating, recentUrls, storage, now,
                              detectedFavicon>>
          ELSE /\ LogoResolved(c, "")
               /\ UNCHANGED <<detectedFavicon, isDetectingLogo>>
    /\ UNCHANGED <<mounted, started, storageWritable, loaded, url, qrSize, logoEnabled, logoFile, logoPreview,
                   readerPending, autoDetectLogo, detections>>
    /\ UNCHANGED share

\* a detectFavicon that starts over from the first candidate after the last
\* one has failed
ProbeDoneStartsOver(c, accessible) ==
    /\ c \in 1..Len(cycles) /\ cycles[c].pc = "probe"
    /\ last' = Step("ProbeDone", accessible)
    /\ LET cyc == cycles[c]
       IN IF ~accessible
          THEN /\ cycles' = [cycles EXCEPT ![c].i = (cyc.i + 1) % NumSources]
               /\ toasts' = <<>>
               /\ UNCHANGED <<qrCodeDataUrl, shownBy, isGenerating, recentUrls, storage, now,
                              detectedFavicon, isDetectingLogo>>
          ELSE LET favicon == FaviconSources(cyc.target)[cyc.i + 1]
               IN /\ detectedFavicon' = favicon
                  /\ isDetectingLogo' = FALSE
                  /\ LogoResolved(c, favicon)
    /\ UNCHANGED <<mounted, started, storageWritable, loaded, url, qrSize, logoEnabled, logoFile, logoPreview,
                   readerPending, autoDetectLogo, detections>>
    /\ UNCHANGED share

\* probe i of the detectFavicon call a cycle awaits resolves
ProbeDone(c, accessible) ==
    /\ c \in 1..Len(cycles) /\ cycles[c].pc = "probe"
    /\ last' = Step("ProbeDone", accessible)
    /\ LET cyc == cycles[c]
       IN IF ~accessible /\ cyc.i + 1 < NumSources
          THEN /\ cycles' = [cycles EXCEPT ![c].i = cyc.i + 1]
               /\ toasts' = <<>>
               /\ UNCHANGED <<qrCodeDataUrl, shownBy, isGenerating, recentUrls, storage, now,
                              detectedFavicon, isDetectingLogo>>
          ELSE LET favicon == DetectFaviconResult(cyc.target, cyc.i, accessible)
               IN /\ detectedFavicon' = favicon
                  /\ isDetectingLogo' = FALSE
                  /\ LogoResolved(c, favicon)
    /\ UNCHANGED <<mounted, started, storageWritable, loaded, url, qrSize, logoEnabled, logoFile, logoPreview,
                   readerPending, autoDetectLogo, detections>>
    /\ UNCHANGED share

\* the QR image of createQRWithLogo loads, fails or times out (10 s)
QrImageDone(c, qrLoaded) ==
    /\ c \in 1..Len(cycles) /\ cycles[c].pc = "qrload"
    /\ last' = Step("QrImageDone", qrLoaded)
    /\ LET cyc == cycles[c]
           qrDataUrl == QRCodeToDataURL(cyc.target, cyc.size)
       IN IF qrLoaded
          THEN /\ cycles' = [cycles EXCEPT ![c].pc = "logoload"]
               /\ toasts' = <<>>
               /\ UNCHANGED <<qrCodeDataUrl, shownBy, isGenerating, recentUrls, storage, now>>
          ELSE Integrated(c, CreateQRWithLogo(qrDataUrl, cyc.logoUrl, TRUE, FALSE, FALSE))
    /\ UNCHANGED <<mounted, started, storageWritable, loaded, url, qrSize, logoEnabled, logoFile, logoPreview,
                   readerPending, autoDetectLogo, detectedFavicon, isDetectingLogo,
                   detections>>
    /\ UNCHANGED share

\* the logo image of createQRWithLogo loads, fails or times out (8 s)
LogoImageDone(c, logoLoaded) ==
    /\ c \in 1..Len(cycles) /\ cycles[c].pc = "logoload"
    /\ last' = Step("LogoImageDone", logoLoaded)
    /\ LET cyc == cycles[c]
           qrDataUrl == QRCodeToDataURL(cyc.target, cyc.size)
       IN Integrated(c, CreateQRWithLogo(qrDataUrl, cyc.logoUrl, TRUE, TRUE, logoLoaded))
    /\ UNCHANGED <<mounted, started, storageWritable, loaded, url, qrSize, logoEnabled, logoFile, logoPreview,
                   readerPending, autoDetectLogo, detectedFavicon, isDetectingLogo,
                   detections>>
    /\ UNCHANGED share

----------------------------------------------------------------------------
(* Download and copy *)

\* link.download: `qr-code-${logoEnabled ? 'with-logo-' : ''}${Date.now()}.png`
DownloadName(withLogo, t) ==
    "qr-code-" \o (IF withLogo THEN "with-logo-" ELSE "") \o ToString(t) \o ".png"

\* downloadQRCode: the buttons are rendered while qrCodeDataUrl is not empty;
\* the browser saves the file or blocks the download, the toast is raised
\* either way
DownloadQRCode(saved) ==
    /\ loaded /\ mounted /\ qrCodeDataUrl # NoImage
    /\ last' = Step("DownloadQRCode", saved)
    /\ \E t \in {now, now + 1} :
          /\ t <= MaxTime
          /\ now' = t
          /\ downloaded' = IF saved
                           THEN [name |-> DownloadName(logoEnabled, t), href |-> qrCodeDataUrl]
                           ELSE downloaded
    /\ toasts' = <<Toast("Downloaded!", "QR code saved to your device")>>
    /\ UNCHANGED <<mounted, started, storageWritable, loaded, storage, url, qrCodeDataUrl, shownBy, isGenerating, qrSize,
                   recentUrls, logoEnabled, logoFile, logoPreview, readerPending, autoDetectLogo,
                   detectedFavicon, isDetectingLogo, cycles, detections>>
    /\ UNCHANGED <<copied, copies, copyTimers, clipboard>>

\* copyToClipboard up to its first await: fetch(qrCodeDataUrl)
CopyToClipboard ==
    /\ loaded /\ mounted /\ qrCodeDataUrl # NoImage
    /\ Len(copies) < MaxCopies
    /\ last' = Step("CopyToClipboard", TRUE)
    /\ copies' = Append(copies, qrCodeDataUrl)
    /\ toasts' = <<>>
    /\ UNCHANGED <<mounted, started, storageWritable, loaded, storage, url, qrCodeDataUrl, shownBy, isGenerating, qrSize,
                   recentUrls, logoEnabled, logoFile, logoPreview, readerPending, autoDetectLogo,
                   detectedFavicon, isDetectingLogo, cycles, detections, now>>
    /\ UNCHANGED <<copied, copyTimers, clipboard, downloaded>>

\* a failed copy that also drops the displayed image
CopySettledDropsImage(k, written) ==
    /\ k \in 1..Len(copies)
    /\ last' = Step("CopySettled", written)
    /\ copies' = RemoveAt(copies, k)
    /\ qrCodeDataUrl' = IF written THEN qrCodeDataUrl ELSE NoImage
    /\ shownBy' = shownBy
    /\ toasts' = <<>>
    /\ UNCHANGED <<mounted, started, storageWritable, loaded, storage, url, isGenerating, qrSize,
                   recentUrls, logoEnabled, logoFile, logoPreview, readerPending, autoDetectLogo,
                   detectedFavicon, isDetectingLogo, cycles, detections, now>>
    /\ UNCHANGED <<copied, copyTimers, clipboard, downloaded>>

\* the awaits of copyToClipboard (fetch, response.blob, clipboard.write)
\* settle: setCopied(true), the 2 s timer and 'Copied!', or the catch
CopySettled(k, written) ==
    /\ k \in 1..Len(copies)
    /\ last' = Step("CopySettled", written)
    /\ copies' = RemoveAt(copies, k)
    /\ IF written
       THEN /\ copyTimers < MaxCopyTimers
            /\ clipboard' = copies[k]
            /\ copied' = TRUE
            /\ copyTimers' = copyTimers + 1
            /\ toasts' = <<Toast("Copied!", "QR code copied to clipboard")>>
       ELSE /\ toasts' = <<Toast("Copy Failed", "Unable to copy QR code to clipboard")>>
            /\ UNCHANGED <<clipboard, copied, copyTimers>>
    /\ UNCHANGED <<mounted, started, storageWritable, loaded, storage, url, qrCodeDataUrl, shownBy, isGenerating, qrSize,
                   recentUrls, logoEnabled, logoFile, logoPreview, readerPending, autoDetectLogo,
                   detectedFavicon, isDetectingLogo, cycles, detections, now, downloaded>>

\* setTimeout(() => setCopied(false), 2000) fires
CopiedTimeout ==
    /\ copyTimers > 0
    /\ last' = Step("CopiedTimeout", TRUE)
    /\ copyTimers' = copyTimers - 1
    /\ copied' = FALSE
    /\ toasts' = <<>>
    /\ UNCHANGED <<mounted, started, storageWritable, loaded, storage, url, qrCodeDataUrl, shownBy, isGenerating, qrSize,
                   recentUrls, logoEnabled, logoFile, logoPreview, readerPending, autoDetectLogo,
                   detectedFavicon, isDetectingLogo, cycles, detections, now>>
    /\ UNCHANGED <<copies, clipboard, downloaded>>

----------------------------------------------------------------------------
(* Specifications of the same component.  Spec is the component with       *)
(* the logo switch left off: typing, submitting, selecting and clearing    *)
(* history, over every persisted record an earlier session can leave.      *)
(* SpecLogo is the logo pipeline of a first session: the switches, the     *)
(* upload, favicon probing and compositing.                                *)

Next ==
    \/ LoadRecentUrls
    \/ \E s \in InvalidInputs \cup TypedUrls : SetUrl(s)
    \/ \E z \in Sizes : SetSize(z)
    \/ ClearRecentUrls
    \/ ClickGenerate
    \/ PressEnter
    \/ \E k \in 1..MaxSelect : SelectHistory(k)
    \/ \E c \in 1..MaxCycles, b \in BOOLEAN : EncodeDone(c, b)

Spec == Init /\ [][Next]_vars

InitLogo ==
    /\ loaded = FALSE /\ mounted = TRUE /\ storage = NoRecord /\ storageWritable = TRUE
    /\ url = "" /\ qrCodeDataUrl = NoImage /\ shownBy = 0 /\ isGenerating = FALSE /\ qrSize = "256"
    /\ recentUrls = <<>> /\ logoEnabled = FALSE /\ logoFile = NoFile /\ logoPreview = ""
    /\ readerPending = FALSE /\ autoDetectLogo = TRUE /\ detectedFavicon = ""
    /\ isDetectingLogo = FALSE /\ cycles = <<>> /\ detections = <<>> /\ toasts = <<>>
    /\ now = MaxTime /\ last = Step("Init", TRUE) /\ started = 0
    /\ copied = FALSE /\ copies = <<>> /\ copyTimers = 0
    /\ clipboard = NoImage /\ downloaded = NoDownload

NextLogo ==
    \/ LoadRecentUrls
    \/ \E s \in LogoInputs : SetUrl(s)
    \/ ToggleLogo
    \/ ToggleAutoDetect
    \/ \E f \in Files : HandleLogoUpload(f)
    \/ ReaderOnLoad
    \/ FaviconPreviewError
    \/ started < MaxLogoStarts /\ ClickGenerate
    \/ started < MaxLogoStarts /\ PressEnter
    \/ \E b \in BOOLEAN : EncodeDone(1, b)
    \/ \E b \in BOOLEAN : ProbeDone(1, b)
    \/ \E b \in BOOLEAN : QrImageDone(1, b)
    \/ \E b \in BOOLEAN : LogoImageDone(1, b)
    \/ \E d \in 1..MaxDetect, b \in BOOLEAN : EffectProbeDone(d, b)

SpecLogo == InitLogo /\ [][NextLogo]_vars

\* SpecLogo with every await of a generation settling: the promise of
\* QRCode.toDataURL, and the image loads, each behind a timer (3 s, 10 s, 8 s)
FairSpecLogo ==
    /\ SpecLogo
    /\ WF_vars(\E b \in BOOLEAN : EncodeDone(1, b))
    /\ WF_vars(\E b \in BOOLEAN : ProbeDone(1, b))
    /\ WF_vars(\E b \in BOOLEAN : QrImageDone(1, b))
    /\ WF_vars(\E b \in BOOLEAN : LogoImageDone(1, b))

\* the component with the logo switch left off and one URL to type: the
\* Download and Copy buttons while generations come and go
NextShare ==
    \/ LoadRecentUrls
    \/ \E s \in ShareInputs : SetUrl(s)
    \/ \E z \in Sizes : SetSize(z)
    \/ ClickGenerate
    \/ \E c \in 1..MaxCycles, b \in BOOLEAN : EncodeDone(c, b)
    \/ \E b \in BOOLEAN : DownloadQRCode(b)
    \/ CopyToClipboard
    \/ \E k \in 1..MaxCopies, b \in BOOLEAN : CopySettled(k, b)
    \/ CopiedTimeout

SpecShare == Init /\ [][NextShare]_vars

\* the component of a first session with the logo switches, one URL to type
\* and the Download button: what the badge and the file name say of the image
NextMarker ==
    \/ LoadRecentUrls
    \/ \E s \in ShareInputs : SetUrl(s)
    \/ ToggleLogo
    \/ ToggleAutoDetect
    \/ started < MaxLogoStarts /\ ClickGenerate
    \/ \E b \in BOOLEAN : EncodeDone(1, b)
    \/ \E b \in BOOLEAN : ProbeDone(1, b)
    \/ \E b \in BOOLEAN : QrImageDone(1, b)
    \/ \E b \in BOOLEAN : LogoImageDone(1, b)
    \/ \E d \in 1..MaxDetect, b \in BOOLEAN : EffectProbeDone(d, b)
    \/ \E b \in BOOLEAN : DownloadQRCode(b)

SpecMarker == InitLogo /\ [][NextMarker]_vars

----------------------------------------------------------------------------
(* Vocabulary of the properties *)

Urls(list) == [i \in 1..Len(list) |-> list[i].url]

UniqueUrls(list) ==
    \A i, j \in 1..Len(list) : i # j => list[i].url # list[j].url

Listed(u, list) == \E i \in 1..Len(list) : list[i].url = u

Raised(ts, title) == \E i \in 1..Len(ts) : ts[i].title = title

\* this step ends cycle c
Ends(c) == c \in 1..Len(cycles) /\ cycles' = RemoveAt(cycles, c)

\* this step is QRCode.toDataURL rejecting
EncodeFailed == last'.op = "EncodeDone" /\ ~last'.ok

\* this step ends cycle c, a direct submission, past addToRecentUrls
Records(c) == Ends(c) /\ cycles[c].direct /\ ~EncodeFailed

PlainQr(cyc) == QRCodeToDataURL(cyc.target, cyc.size)

GoogleFavicon64(host) == "https://www.google.com/s2/favicons?domain=" \o host \o "&sz=64"

----------------------------------------------------------------------------
C2_InvalidTargetRejected ==
    [][ (/\ last'.op \in {"ClickGenerate", "PressEnter"}
         /\ (Trim(url) = "" \/ ~isValidUrl(url)))
        => /\ qrCodeDataUrl' = qrCodeDataUrl
           /\ recentUrls' = recentUrls
           /\ storage' = storage
           /\ cycles' = cycles
           /\ isGenerating' = isGenerating
           /\ Len(toasts') = 1
           /\ toasts'[1].title = IF Trim(url) = "" THEN "URL Required"
                                 ELSE "Invalid URL" ]_vars

\* 'not-a-url' was submitted while an earlier image and history were shown
C2_Witness ==
    /\ last = Step("PressEnter", FALSE)
    /\ url = "not-a-url"
    /\ Raised(toasts, "Invalid URL")
    /\ qrCodeDataUrl # NoImage
    /\ recentUrls # <<>>

(* C3, as stated: every generation with the logo off ends with the image of *)
(* its URL displayed, and a direct one submitted on an empty history leaves *)
(* exactly one entry, carrying that URL.                                    *)
C3_AlwaysProducesImage ==
    [][ \A c \in 1..Len(cycles) :
          (Ends(c) /\ ~cycles[c].logoEnabled)
          => /\ qrCodeDataUrl' = PlainQr(cycles[c])
             /\ qrCodeDataUrl' # NoImage
             /\ (cycles[c].direct /\ cycles[c].snap = <<>>)
                   => Urls(recentUrls') = <<cycles[c].target>> ]_vars

(* C3, amended: a generation with the logo off always ends, in its try or   *)
(* in its catch; when QRCode.toDataURL resolves it ends with the image of   *)
(* its URL at the captured size displayed, and a direct one submitted on an *)
(* empty history leaves exactly one entry, carrying that URL; when          *)
(* QRCode.toDataURL rejects, the image and the history are left as they     *)
(* were and the failure toast is raised.                                    *)
C3_ProducesImageWhenEncoded ==
    [][ \A c \in 1..Len(cycles) :
          (Ends(c) /\ ~cycles[c].logoEnabled)
          => /\ isGenerating' = FALSE
             /\ IF EncodeFailed
                THEN /\ qrCodeDataUrl' = qrCodeDataUrl
                     /\ recentUrls' = recentUrls
                     /\ toasts' = <<FailedToast>>
                ELSE /\ qrCodeDataUrl' = PlainQr(cycles[c])
                     /\ qrCodeDataUrl' # NoImage
                     /\ qrCodeDataUrl'.px.size = ParseInt(cycles[c].size)
                     /\ (cycles[c].direct /\ cycles[c].snap = <<>>)
                           => Urls(recentUrls') = <<cycles[c].target>> ]_vars

\* https://a.com was submitted on an empty history and its 256 px image is shown
C3_Witness ==
    /\ last = Step("EncodeDone", TRUE)
    /\ cycles = <<>>
    /\ qrCodeDataUrl = CanvasToDataURL(Bitmap("https://a.com", 256, ""))
    /\ Urls(recentUrls) = <<"https://a.com">>
    /\ started = 1

(* C4: when a URL already in the history is recorded, the history becomes   *)
(* one entry for that URL, at the front with the timestamp of this add,     *)
(* followed by the other entries in their order.                            *)
C4_ReAddMovesToFront ==
    [][ \A c \in 1..Len(cycles) :
          (Records(c) /\ Listed(cycles[c].target, recentUrls))
          => /\ recentUrls'[1] = [url |-> cycles[c].target, timestamp |-> now']
             /\ Urls(recentUrls') = <<cycles[c].target>>
                                    \o Urls(FilterOut(recentUrls, cycles[c].target)) ]_vars

(* C5: when a URL not in the history is recorded while the history holds 5  *)
(* entries, the history becomes that URL followed by the 4 newest of them:  *)
(* the oldest is evicted.                                                   *)
C5_EvictsOldest ==
    [][ \A c \in 1..Len(cycles) :
          (/\ Records(c)
           /\ ~Listed(cycles[c].target, recentUrls)
           /\ Len(recentUrls) = MaxRecent)
          => Urls(recentUrls') = <<cycles[c].target>>
                                 \o SubSeq(Urls(recentUrls), 1, MaxRecent - 1) ]_vars

(* C6: a generation that ends in its try block records its URL at the front *)
(* of the history when it was a direct submission; one started by selecting *)
(* a history entry displays its image and leaves the history list and the   *)
(* persisted record as they were, as does the selection itself.             *)
C6_OnlyDirectSubmissionRecords ==
    [][ /\ \A c \in 1..Len(cycles) :
             (Ends(c) /\ ~EncodeFailed)
             => IF cycles[c].direct
                THEN /\ recentUrls' # <<>>
                     /\ recentUrls'[1] = [url |-> cycles[c].target, timestamp |-> now']
                ELSE /\ recentUrls' = recentUrls
                     /\ storage' = storage
                     /\ qrCodeDataUrl'.px.url = cycles[c].target
        /\ last'.op = "SelectHistory"
             => recentUrls' = recentUrls /\ storage' = storage ]_vars

\* the image of https://h1.com, which only a selection can submit, is shown
\* and the loaded history is as it was
C6_Witness ==
    /\ last = Step("EncodeDone", TRUE)
    /\ qrCodeDataUrl.px.url = "https://h1.com"
    /\ url = "https://h1.com"
    /\ Urls(recentUrls) = OldUrls
    /\ storage = JsonStringify(Preload(MaxRecent))

(* C7: whenever a step of a generation raises (QRCode.toDataURL rejects, or *)
(* localStorage.setItem throws in addToRecentUrls), the failure toast is    *)
(* raised and the displayed image is left as it was.                        *)
C7_FailureLeavesImage ==
    [][ (EncodeFailed \/ (\E c \in 1..Len(cycles) : Records(c) /\ ~storageWritable))
        => /\ Raised(toasts', "Generation Failed")
           /\ qrCodeDataUrl' = qrCodeDataUrl ]_vars

(* C8: a generation with the logo on whose QRCode.toDataURL resolved ends   *)
(* with the image of its URL displayed, with the logo or without it; no     *)
(* failed probe, image load or canvas raises the failure toast.             *)
C8_LogoFailureNeverAborts ==
    [][ /\ \A c \in 1..Len(cycles) :
             (Ends(c) /\ cycles[c].logoEnabled /\ ~EncodeFailed)
             => /\ qrCodeDataUrl'.mime = "image/png"
                /\ qrCodeDataUrl'.px.url = cycles[c].target
                /\ qrCodeDataUrl'.px.size = ParseInt(cycles[c].size)
                /\ ~Raised(toasts', "Generation Failed")
        /\ (last'.op \in {"ProbeDone", "QrImageDone", "LogoImageDone"} /\ ~last'.ok)
             => ~Raised(toasts', "Generation Failed") ]_vars

\* the QR image of the compositor failed to load and the plain code is shown
C8_Witness ==
    /\ last = Step("QrImageDone", FALSE)
    /\ cycles = <<>>
    /\ logoEnabled
    /\ qrCodeDataUrl = CanvasToDataURL(Bitmap("https://a.com", 256, ""))

(* C9: when the sixth probe of the detectFavicon call a generation awaits   *)
(* fails, the detected favicon becomes the first service URL and that URL   *)
(* is the logo createQRWithLogo is called with: the cycle waits for the QR  *)
(* image with it, or, the canvas failing, ends with the integration toast.  *)
C9_FallbackIsLogoSource ==
    [][ \A c \in 1..Len(cycles) :
          (/\ last'.op = "ProbeDone" /\ ~last'.ok
           /\ cycles[c].pc = "probe" /\ cycles[c].i = NumSources - 1
           /\ (Ends(c) \/ (Len(cycles') = Len(cycles) /\ cycles'[c] # cycles[c])))
          => LET first == GoogleFavicon64(ParseURL(cycles[c].target).hostname)
             IN /\ detectedFavicon' = first
                /\ first # ""
                /\ IF Ends(c)
                   THEN Raised(toasts', "Logo Integration Issue")
                        /\ ~Raised(toasts', "No Logo Found")
                   ELSE cycles'[c].pc = "qrload" /\ cycles'[c].logoUrl = first ]_vars

\* all six probes failed and the compositor waits with the fallback as logo
C9_Witness ==
    /\ last = Step("ProbeDone", FALSE)
    /\ Len(cycles) = 1
    /\ cycles[1].pc = "qrload"
    /\ cycles[1].logoUrl = "https://www.google.com/s2/favicons?domain=a.com&sz=64"
    /\ detectedFavicon = cycles[1].logoUrl

C11_ClearEmptiesListAndRecord ==
    [][ last'.op = "ClearRecentUrls"
        => /\ Len(recentUrls) > 0
           /\ recentUrls' = <<>>
           /\ storage' = NoRecord
           /\ Raised(toasts', "History Cleared")
           /\ qrCodeDataUrl' = qrCodeDataUrl
           /\ cycles' = cycles ]_vars

\* a history that had been written to the storage was cleared while an image
\* was displayed
C11_Witness ==
    /\ last = Step("ClearRecentUrls", TRUE)
    /\ recentUrls = <<>>
    /\ storage = NoRecord
    /\ storageWritable
    /\ started > 0
    /\ qrCodeDataUrl # NoImage

(* C12: at most one generateQRCode call is in flight in any state: while a  *)
(* call is between its start and its end, neither the Generate button nor   *)
(* Enter nor a history entry starts another one.                            *)
C12_OneCycleAtATime == Len(cycles) <= 1

(* C13: a download or a copy to the clipboard, at its click and when it     *)
(* settles, saved or blocked, written or failed, leaves the displayed       *)
(* image, the history list, the persisted record, the generating flag and   *)
(* the calls in flight as they were; a failed copy raises 'Copy Failed'     *)
(* and nothing else, leaving the clipboard and the copied mark alone.       *)
C13_ShareLeavesStateAlone ==
    [][ last'.op \in {"DownloadQRCode", "CopyToClipboard", "CopySettled", "CopiedTimeout"}
        => /\ qrCodeDataUrl' = qrCodeDataUrl
           /\ recentUrls' = recentUrls
           /\ storage' = storage
           /\ isGenerating' = isGenerating
           /\ cycles' = cycles
           /\ last' = Step("CopySettled", FALSE)
                => /\ toasts' = <<Toast("Copy Failed", "Unable to copy QR code to clipboard")>>
                   /\ clipboard' = clipboard
                   /\ copied' = copied
                   /\ downloaded' = downloaded ]_vars

\* a copy failed while a second generation was in flight over the image and
\* the history of the first; a file had been saved before
C13_Witness ==
    /\ last = Step("CopySettled", FALSE)
    /\ Raised(toasts, "Copy Failed")
    /\ isGenerating
    /\ qrCodeDataUrl = CanvasToDataURL(Bitmap("https://a.com", 256, ""))
    /\ Urls(recentUrls) = <<"https://a.com">>
    /\ downloaded.href = qrCodeDataUrl

(* C14: a detectFavicon call, awaited by a generation or started by the     *)
(* effect, probes one candidate at a time in the order of faviconSources:   *)
(* its index stays within the 6 candidates, moves only from i to i + 1 and  *)
(* only when probe i has failed (error or 3 s timeout), and when probe i    *)
(* loads the call ends there with candidate i as the detected favicon.      *)
C14_ProbesInOrder ==
    [][ /\ \A c \in 1..Len(cycles) :
             cycles[c].pc = "probe"
             => /\ cycles[c].i \in 0..(NumSources - 1)
                /\ (/\ Len(cycles') = Len(cycles)
                    /\ cycles'[c].pc = "probe"
                    /\ cycles'[c].i # cycles[c].i)
                      => /\ last' = Step("ProbeDone", FALSE)
                         /\ cycles'[c].i = cycles[c].i + 1
                /\ (last' = Step("ProbeDone", TRUE) /\ cycles' # cycles
                    /\ (Ends(c) \/ (Len(cycles') = Len(cycles) /\ cycles'[c] # cycles[c])))
                      => /\ Ends(c) \/ cycles'[c].pc # "probe"
                         /\ detectedFavicon' =
                               FaviconSources(cycles[c].target)[cycles[c].i + 1]
        /\ \A d \in 1..Len(detections) : detections[d].i \in 0..(NumSources - 1)
        /\ Len(detections') = Len(detections)
             => \A d \in 1..Len(detections) :
                   detections'[d] # detections[d]
                   => /\ last' = Step("EffectProbeDone", FALSE)
                      /\ detections'[d] = [detections[d] EXCEPT !.i = @ + 1]
        /\ Len(detections') < Len(detections)
             => /\ last'.op = "EffectProbeDone"
                /\ \E d \in 1..Len(detections) :
                      /\ detections' = RemoveAt(detections, d)
                      /\ last'.ok \/ detections[d].i = NumSources - 1
                      /\ last'.ok => detectedFavicon' =
                            FaviconSources(detections[d].url)[detections[d].i + 1] ]_vars

\* three candidates failed, the fourth (/favicon.ico of the site) loaded and
\* is the logo the compositor waits with
C14_Witness ==
    /\ last = Step("ProbeDone", TRUE)
    /\ detectedFavicon = "https://a.com/favicon.ico"
    /\ Len(cycles) = 1
    /\ cycles[1].pc = "qrload"
    /\ cycles[1].i = 3
    /\ cycles[1].logoUrl = detectedFavicon

\* a toast that tells the user the logo is on the QR code
LogoSuccessNotice(t) ==
    t.title = "Success!" \/ t.description = "QR code with logo is ready!"

(* C15: whenever a generation with the logo on ends with an image on which  *)
(* no logo was drawn, a 'logo not applied' toast is raised ('Logo           *)
(* Integration Issue' or 'No Logo Found') and no toast that announces the   *)
(* logo is.                                                                 *)
C15_MissingLogoIsReported ==
    [][ \A c \in 1..Len(cycles) :
          (/\ Ends(c) /\ cycles[c].logoEnabled /\ ~EncodeFailed
           /\ qrCodeDataUrl'.px.logo = "")
          => /\ Raised(toasts', "Logo Integration Issue") \/ Raised(toasts', "No Logo Found")
             /\ \A i \in 1..Len(toasts') : ~LogoSuccessNotice(toasts'[i]) ]_vars

(* C16: in every state, isDetectingLogo is true exactly when a detectFavicon *)
(* call, awaited by a generation or started by the effect, is in flight.     *)
C16_DetectingFlagTracksCalls ==
    isDetectingLogo <=> (\/ detections # <<>>
                         \/ \E c \in 1..Len(cycles) : cycles[c].pc = "probe")

(* C17: a generation with the logo on uses the uploaded image (logoFile and *)
(* its logoPreview, as they are when it starts) as its logo and calls no    *)
(* detectFavicon, auto-detect on or off; only with no uploaded image and    *)
(* auto-detect on does it call detectFavicon; with neither it has no logo.  *)
C17_UploadBeforeDetection ==
    [][ /\ (last'.op \in {"ClickGenerate", "PressEnter"} /\ Len(cycles') = Len(cycles) + 1)
           => cycles'[Len(cycles')].upload =
                 IF logoFile # NoFile /\ logoPreview # "" THEN logoPreview ELSE ""
        /\ \A c \in 1..Len(cycles) :
             /\ cycles[c].pc = "probe" => cycles[c].upload = "" /\ cycles[c].auto
             /\ (/\ last' = Step("EncodeDone", TRUE)
                 /\ cycles[c].pc = "encode" /\ cycles[c].logoEnabled)
                => IF cycles[c].upload # ""
                   THEN /\ isDetectingLogo' = isDetectingLogo
                        /\ detectedFavicon' = detectedFavicon
                        /\ \/ Ends(c) /\ ~Raised(toasts', "No Logo Found")
                           \/ /\ cycles'[c].pc = "qrload"
                              /\ cycles'[c].logoUrl = cycles[c].upload
                   ELSE IF cycles[c].auto
                   THEN cycles'[c].pc = "probe" /\ isDetectingLogo'
                   ELSE Ends(c) /\ Raised(toasts', "No Logo Found") ]_vars

\* a file was uploaded, auto-detect was switched back on, and the generation
\* waits in the compositor with the uploaded image as its logo
C17_Witness ==
    /\ last = Step("EncodeDone", TRUE)
    /\ autoDetectLogo
    /\ Len(cycles) = 1
    /\ cycles[1].auto
    /\ cycles[1].pc = "qrload"
    /\ cycles[1].logoUrl = "data:image/png;base64,logo.png"
    /\ detectedFavicon = ""

(* C18: the startup load leaves the in-memory history empty and the        *)
(* component rendered when the persisted record is absent or does not       *)
(* parse into a history list; otherwise it makes the in-memory history      *)
(* equal to the persisted list.                                             *)
C18_LoadToleratesBadRecord ==
    [][ last'.op = "LoadRecentUrls"
        => /\ mounted'
           /\ recentUrls' = IF storage.kind = "json" THEN storage.val ELSE <<>> ]_vars

(* C19: every generation that has started ends: from any state with a call *)
(* in flight, a state with no call in flight and the generating flag down   *)
(* is reached, provided each awaited promise settles (load, error or        *)
(* timeout).                                                                *)
C19_GenerationTerminates ==
    (cycles # <<>>) ~> (cycles = <<>> /\ ~isGenerating)

\* a generation has ended after five failed probes, a sixth that loaded, the
\* QR image and the logo image
C19_Witness ==
    /\ last = Step("LogoImageDone", TRUE)
    /\ cycles = <<>>
    /\ ~isGenerating
    /\ qrCodeDataUrl.px.logo = "https://a.com/apple-touch-icon.png"

\* this step is createQRWithLogo, called by cycle c, finding no canvas or no
\* 2D context
CanvasFailed(c) ==
    /\ Ends(c) /\ cycles[c].logoEnabled
    /\ \/ last' = Step("EncodeDone", TRUE) /\ cycles[c].upload # ""
       \/ last'.op = "ProbeDone"

\* this step is the QR image of createQRWithLogo, called by cycle c, failing
\* to load or timing out
QrImageFailed(c) ==
    cycles[c].pc = "qrload" /\ last' = Step("QrImageDone", FALSE)

(* C20: when createQRWithLogo finds no canvas or no 2D context, or its QR   *)
(* image fails to load or times out, it returns the data URL it was given   *)
(* and does not throw: the generation ends in its try block with the plain  *)
(* QR code displayed, the integration toast raised and no failure toast.    *)
C20_CompositorReturnsInput ==
    [][ \A c \in 1..Len(cycles) :
          (CanvasFailed(c) \/ QrImageFailed(c))
          => /\ Ends(c)
             /\ qrCodeDataUrl' = PlainQr(cycles[c])
             /\ Raised(toasts', "Logo Integration Issue")
             /\ Raised(toasts', "QR Code Generated!")
             /\ ~Raised(toasts', "Generation Failed") ]_vars

\* the canvas was not available for a generation with an uploaded logo
C20_Witness ==
    /\ last = Step("EncodeDone", TRUE)
    /\ cycles = <<>>
    /\ logoPreview # ""
    /\ Raised(toasts, "Logo Integration Issue")
    /\ qrCodeDataUrl = CanvasToDataURL(Bitmap("https://a.com", 256, ""))

(* C21: when a generation records its URL, the new history is computed     *)
(* from the history of that moment: the new entry, then the current        *)
(* entries without that URL, cut to 5.  Entries cleared while the call was  *)
(* in flight do not come back and entries another call added meanwhile are  *)
(* kept.                                                                    *)
C21_RecordsOnCurrentHistory ==
    [][ \A c \in 1..Len(cycles) :
          Records(c)
          => recentUrls' = UpdatedRecent(recentUrls, cycles[c].target, now') ]_vars

\* the persisted record and the in-memory list say the same
Agree(list, rec) ==
    \/ rec.kind = "absent" /\ list = <<>>
    \/ rec.kind = "json" /\ rec.val = list

(* C22: right after the startup load, after every add and after every       *)
(* clear, the persisted record and the in-memory history agree: no record   *)
(* and an empty list, or a record that parses to the list.                  *)
C22_RecordAgreesWithList ==
    [][ (\/ last'.op \in {"LoadRecentUrls", "ClearRecentUrls"}
         \/ \E c \in 1..Len(cycles) : Records(c))
        => Agree(recentUrls', storage') ]_vars

(* C23: a call that was started earlier never overwrites the result of a   *)
(* call started later: whenever a generation ends by showing its image,     *)
(* the image it replaces is of no later-started call, so that once every    *)
(* call has ended the image shown is the one of the most recently started   *)
(* successful call.                                                         *)
C23_LatestStartedWins ==
    [][ \A c \in 1..Len(cycles) :
          (Ends(c) /\ ~EncodeFailed) => shownBy <= cycles[c].id ]_vars

\* the image has a logo composited onto it
HasLogo(img) == img.px.logo # ""

(* C24: the "QR Code with Logo" badge is shown exactly when the displayed   *)
(* image has a logo composited onto it, and a saved file has "with-logo-"   *)
(* in its name exactly when the image saved in it has, whatever the logo    *)
(* switch is now and whether or not the logo of that generation loaded.     *)
C24_MarkerTracksImage ==
    /\ qrCodeDataUrl # NoImage => (logoEnabled <=> HasLogo(qrCodeDataUrl))
    /\ downloaded # NoDownload
       => \E t \in 0..now : downloaded.name = DownloadName(HasLogo(downloaded.href), t)

=============================================================================
